---- MODULE Spec2Model ----
(***************************************************************************)
(* A model of fastembed's TextEmbedding (src/src/lib.rs): tokenizer        *)
(* construction (load_tokenizer), the batched embedding pipeline (embed)   *)
(* and the normalization utility (normalize).                              *)
(*                                                                         *)
(* Three specifications share the module:                                  *)
(*   Spec      the embed pipeline on a constructed instance, batches run   *)
(*             by parallel workers in any interleaving;                    *)
(*   SpecTok   load_tokenizer applied to bounded tokenizer files;          *)
(*   SpecNorm  normalize applied to bounded hidden-state rows.             *)
(*                                                                         *)
(* Numbers.  Hidden states and embeddings are f32 values, and normalize's  *)
(* arithmetic is IEEE-754 binary32 with round to nearest, ties to even:    *)
(* a value is kept as its mantissa and exponent, and every product, sum,   *)
(* square root and quotient is rounded as the hardware rounds it,          *)
(* subnormals, overflow to infinity and NaN included.                      *)
(***************************************************************************)
EXTENDS Integers, Sequences, FiniteSets, TLC

VARIABLES
    \* ---- the TextEmbedding instance (lib.rs 166-170) ----
    sessionInputs,        \* names of the loaded network's declared inputs
    engine,               \* what the loaded network does with padded positions
    need_token_type_ids,  \* the flag cached by new()
    max_length,           \* the truncation length configured on the tokenizer
    \* ---- one embed call (lib.rs 386-463) ----
    phase,                \* "idle" | "running" | "returned" | "panicked"
    texts,                \* the call's input texts
    batch_size,           \* the Option<usize> argument: <<>> or <<b>>
    batches,              \* the chunks par_chunks yields, in order
    pc,                   \* per batch: "todo" | "ready" | "ok" | "failed"
    tensors,              \* per batch: the named inputs built for the engine
    res,                  \* per batch: the closure's result
    encodeCalls,          \* per batch: calls of tokenizer.encode_batch
    runCalls,             \* per batch: calls of session.run
    runNames,             \* every set of input names a run call has carried
    finished,             \* batch indices in the order their closures returned Ok
    ret,                  \* what the call handed to its caller
    \* ---- load_tokenizer (lib.rs 288-369) ----
    tkFiles,              \* the four tokenizer files, as parsed documents
    tkRequested,          \* the caller's max_length
    tkOut,                \* the outcome of load_tokenizer
    \* ---- normalize (lib.rs 476-482) ----
    nrow,                 \* a hidden-state row at sequence position 0
    nout                  \* normalize's result for it

pipeVars == <<sessionInputs, engine, need_token_type_ids, max_length, phase, texts,
              batch_size, batches, pc, tensors, res, encodeCalls,
              runCalls, runNames, finished, ret>>
tokVars == <<tkFiles, tkRequested, tkOut>>
normVars == <<nrow, nout>>
vars == <<pipeVars, tokVars, normVars>>

(***************************************************************************)
(* Bounds of the model.                                                    *)
(***************************************************************************)
MaxTexts == 3
MaxBatch == 4
MaxEntries == 1
MaxDim == 2
MaxLength == 2

(***************************************************************************)
(* Program constants.                                                      *)
(***************************************************************************)
DEFAULT_BATCH_SIZE == 256
DEFAULT_MAX_LENGTH == 512
F32_MANTISSA_BITS == 24

None == <<>>
Some(x) == <<x>>

Min(a, b) == IF a <= b THEN a ELSE b

(***************************************************************************)
(* IEEE-754 binary32 arithmetic, round to nearest, ties to even.           *)
(*                                                                         *)
(* An f32 is a record [cls, neg, m, e]: cls "fin" is the value m * 2^e     *)
(* with 2^23 <= m < 2^24 (normal, -149 <= e <= 104) or 0 < m < 2^23 and    *)
(* e = -149 (subnormal); cls "zero", "inf" and "nan" carry m = e = 0.      *)
(***************************************************************************)
F32_MIN_EXP == -149
F32_MAX_EXP == 104

Fin(neg, m, e) == [cls |-> "fin", neg |-> neg, m |-> m, e |-> e]
Zero(neg) == [cls |-> "zero", neg |-> neg, m |-> 0, e |-> 0]
Inf(neg) == [cls |-> "inf", neg |-> neg, m |-> 0, e |-> 0]
NaN == [cls |-> "nan", neg |-> FALSE, m |-> 0, e |-> 0]

\* The number of bits of n >= 0.
RECURSIVE BitLen(_)
BitLen(n) ==
    IF n < 2 THEN n
    ELSE IF n < 256 THEN 1 + BitLen(n \div 2)
    ELSE 8 + BitLen(n \div 256)

\* The f32 of mantissa m (at most 2^24) and exponent e >= F32_MIN_EXP.
Pack(neg, m, e) ==
    IF m = 0 THEN Zero(neg)
    ELSE LET carry == m = 2 ^ F32_MANTISSA_BITS
             mm == IF carry THEN m \div 2 ELSE m
             ee == IF carry THEN e + 1 ELSE e
         IN  IF ee > F32_MAX_EXP THEN Inf(neg) ELSE Fin(neg, mm, ee)

\* The f32 nearest to M * 2^E (plus, when sticky, a fraction of the last
\* place of M), ties to even; M < 2^30.
RoundPack(neg, M, E, sticky) ==
    IF M = 0 THEN Zero(neg)
    ELSE LET nb == BitLen(M)
             e == IF E + nb - F32_MANTISSA_BITS > F32_MIN_EXP
                  THEN E + nb - F32_MANTISSA_BITS ELSE F32_MIN_EXP
             shift == e - E
         IN  IF shift <= 0 THEN Pack(neg, M * 2 ^ (0 - shift), e)
             ELSE IF shift > 30 THEN Zero(neg)
             ELSE LET q == M \div 2 ^ shift
                      r == M % 2 ^ shift
                      half == 2 ^ (shift - 1)
                      up == r > half \/ (r = half /\ (sticky \/ q % 2 = 1))
                  IN  Pack(neg, IF up THEN q + 1 ELSE q, e)

\* A finite non-zero f32 with its mantissa brought to 24 bits (the exponent
\* of a subnormal goes below F32_MIN_EXP).
Normal(x) ==
    LET k == F32_MANTISSA_BITS - BitLen(x.m)
    IN  [m |-> x.m * 2 ^ k, e |-> x.e - k]

\* a * b
f32_mul(a, b) ==
    LET neg == a.neg # b.neg
    IN  IF a.cls = "nan" \/ b.cls = "nan" THEN NaN
        ELSE IF a.cls = "inf" \/ b.cls = "inf"
        THEN IF a.cls = "zero" \/ b.cls = "zero" THEN NaN ELSE Inf(neg)
        ELSE IF a.cls = "zero" \/ b.cls = "zero" THEN Zero(neg)
        ELSE LET x == Normal(a)
                 y == Normal(b)
                 xh == x.m \div 4096
                 xl == x.m % 4096
                 yh == y.m \div 4096
                 yl == y.m % 4096
                 p0 == xl * yl
                 p1 == xh * yl + xl * yh
                 p2 == xh * yh
                 low == p0 + (p1 % 4096) * 4096
                 high == p2 + p1 \div 4096 + low \div 16777216
                 low24 == low % 16777216
             IN  RoundPack(neg, high * 16 + low24 \div 1048576,
                           x.e + y.e + 20, low24 % 1048576 # 0)

\* |a| >= |b| for finite non-zero a, b.
MagGeq(a, b) == a.e > b.e \/ (a.e = b.e /\ a.m >= b.m)

\* a + b
f32_add(a, b) ==
    IF a.cls = "nan" \/ b.cls = "nan" THEN NaN
    ELSE IF a.cls = "inf"
    THEN IF b.cls = "inf" /\ a.neg # b.neg THEN NaN ELSE a
    ELSE IF b.cls = "inf" THEN b
    ELSE IF a.cls = "zero"
    THEN IF b.cls = "zero" THEN Zero(a.neg /\ b.neg) ELSE b
    ELSE IF b.cls = "zero" THEN a
    ELSE LET big == IF MagGeq(a, b) THEN a ELSE b
             small == IF MagGeq(a, b) THEN b ELSE a
             d == big.e - small.e
             keep == IF d > 27 THEN 0 ELSE (small.m * 8) \div 2 ^ d
             sticky == IF d > 27 THEN TRUE ELSE (small.m * 8) % 2 ^ d # 0
         IN  IF big.neg = small.neg
             THEN RoundPack(big.neg, big.m * 8 + keep, big.e - 3, sticky)
             ELSE LET diff == big.m * 8 - keep - (IF sticky THEN 1 ELSE 0)
                  IN  IF diff = 0 /\ ~sticky THEN Zero(FALSE)
                      ELSE RoundPack(big.neg, diff, big.e - 3, sticky)

\* The square root digit by digit: n's bit pairs from pair i down to 0,
\* then `more` pairs of zeros; the root so far and the remainder.
RECURSIVE SqrtDigits(_, _, _, _, _)
SqrtDigits(n, i, more, root, rem) ==
    IF i < 0 /\ more = 0 THEN [root |-> root, rem |-> rem]
    ELSE LET pair == IF i >= 0 THEN (n \div 4 ^ i) % 4 ELSE 0
             r == rem * 4 + pair
             trial == 4 * root + 1
             ni == IF i >= 0 THEN i - 1 ELSE i
             nm == IF i >= 0 THEN more ELSE more - 1
         IN  IF r >= trial THEN SqrtDigits(n, ni, nm, 2 * root + 1, r - trial)
             ELSE SqrtDigits(n, ni, nm, 2 * root, r)

\* a.sqrt()
f32_sqrt(a) ==
    IF a.cls = "nan" THEN NaN
    ELSE IF a.cls = "zero" THEN a
    ELSE IF a.neg THEN NaN
    ELSE IF a.cls = "inf" THEN a
    ELSE LET x == Normal(a)
             odd == x.e % 2 = 1
             n == IF odd THEN 2 * x.m ELSE x.m
             e == IF odd THEN x.e - 1 ELSE x.e
             s == SqrtDigits(n, 12, 14, 0, 0)
         IN  RoundPack(FALSE, s.root, e \div 2 - 14, s.rem # 0)

\* Long division: `steps` more quotient bits of rem / d.
RECURSIVE DivDigits(_, _, _, _)
DivDigits(d, steps, q, rem) ==
    IF steps = 0 THEN [q |-> q, rem |-> rem]
    ELSE IF 2 * rem >= d THEN DivDigits(d, steps - 1, 2 * q + 1, 2 * rem - d)
    ELSE DivDigits(d, steps - 1, 2 * q, 2 * rem)

\* a / b
f32_div(a, b) ==
    LET neg == a.neg # b.neg
    IN  IF a.cls = "nan" \/ b.cls = "nan" THEN NaN
        ELSE IF a.cls = "inf" THEN IF b.cls = "inf" THEN NaN ELSE Inf(neg)
        ELSE IF b.cls = "inf" THEN Zero(neg)
        ELSE IF b.cls = "zero" THEN IF a.cls = "zero" THEN NaN ELSE Inf(neg)
        ELSE IF a.cls = "zero" THEN Zero(neg)
        ELSE LET x == Normal(a)
                 y == Normal(b)
                 s == DivDigits(y.m, 27, x.m \div y.m, x.m % y.m)
             IN  RoundPack(neg, s.q, x.e - y.e - 27, s.rem # 0)

\* An integer below 2^30 as f32.
F32FromInt(n) ==
    IF n < 0 THEN RoundPack(TRUE, 0 - n, 0, FALSE) ELSE RoundPack(FALSE, n, 0, FALSE)

\* 1e-12 as f32.
EPSILON == Fin(FALSE, 9223372, -63)

\* v.iter().map(|val| val * val).sum::<f32>(): a fold from -0.0 (the additive
\* identity std's Sum for f32 starts from), left to right.
RECURSIVE sum_of_squares(_, _)
sum_of_squares(v, acc) ==
    IF v = <<>> THEN acc
    ELSE sum_of_squares(Tail(v), f32_add(acc, f32_mul(Head(v), Head(v))))

\* A norm-squared sum without the square root.
normalizeNoSqrt(v) ==
    LET norm == sum_of_squares(v, Zero(TRUE))
        epsilon == EPSILON
    IN  [i \in 1..Len(v) |-> f32_div(v[i], f32_add(norm, epsilon))]

\* normalize: every element divided by (norm + epsilon).
normalize(v) ==
    LET norm == f32_sqrt(sum_of_squares(v, Zero(TRUE)))
        epsilon == EPSILON
    IN  [i \in 1..Len(v) |-> f32_div(v[i], f32_add(norm, epsilon))]

(***************************************************************************)
(* The collaborators, as the pipeline sees them.                           *)
(*                                                                         *)
(* A text is the sequence of token ids the tokenizer's model gives it      *)
(* (ids 1..Vocab; the pad id is 0).  The tokenizer truncates every         *)
(* sequence to its configured max_length and pads a batch to its longest   *)
(* sequence (PaddingStrategy::BatchLongest, lib.rs 334-345).               *)
(*                                                                         *)
(* The engine is the network file the instance was built from, opaque to   *)
(* the library.  Two deterministic networks stand for what it may do with  *)
(* a padded row: "attends" reads only the positions the attention mask     *)
(* marks, "reads_padding" reads every position of the row.  Either gives a *)
(* hidden state at position 0 that is injective on what it reads.          *)
(***************************************************************************)
Vocab == 1..2

\* The texts a call may be given: one is shorter than the truncation length
\* MaxLength the instance was built with, the other longer.
Texts == {<<1>>, <<2, 1, 2>>}

RECURSIVE SeqsUpTo(_, _)
SeqsUpTo(S, n) ==
    IF n = 0 THEN {<<>>}
    ELSE LET shorter == SeqsUpTo(S, n - 1)
         IN  shorter \cup {Append(q, x) : q \in {r \in shorter : Len(r) = n - 1}, x \in S}

PadId == 0

RECURSIVE MaxLen(_)
MaxLen(encs) ==
    IF encs = <<>> THEN 0
    ELSE LET rest == MaxLen(Tail(encs))
         IN  IF Len(Head(encs)) >= rest THEN Len(Head(encs)) ELSE rest

Truncate(text, maxlen) == SubSeq(text, 1, Min(Len(text), maxlen))

\* One encoding, padded on the right to length len.
PadEncoding(toks, len) ==
    [ids |-> [j \in 1..len |-> IF j <= Len(toks) THEN toks[j] ELSE PadId],
     attention_mask |-> [j \in 1..len |-> IF j <= Len(toks) THEN 1 ELSE 0],
     type_ids |-> [j \in 1..len |-> 0]]

\* tokenizer.encode_batch(inputs, true): truncate each, pad to the longest.
encode_batch(batch, maxlen) ==
    LET trunc == [i \in 1..Len(batch) |-> Truncate(batch[i], maxlen)]
        longest == MaxLen(trunc)
    IN  [i \in 1..Len(batch) |-> PadEncoding(trunc[i], longest)]

RECURSIVE Code(_, _)
Code(toks, j) ==
    IF j > Len(toks) THEN 0
    ELSE (toks[j] + 1) * (Cardinality(Vocab) + 2) ^ (j - 1) + Code(toks, j + 1)

\* The tokens of a row the mask lets the network attend to.
Attended(ids, mask) ==
    LET keep == {j \in 1..Len(ids) : mask[j] = 1}
        RECURSIVE Pick(_)
        Pick(j) == IF j > Len(ids) THEN <<>>
                   ELSE IF j \in keep THEN <<ids[j]>> \o Pick(j + 1)
                   ELSE Pick(j + 1)
    IN  Pick(1)

Engines == {"attends", "reads_padding"}

\* session.run(session_inputs)["last_hidden_state"]: per row, per position,
\* a hidden vector of f32.
EngineRun(kind, inputs) ==
    LET ids == inputs["input_ids"]
        mask == inputs["attention_mask"]
        c(r) == IF kind = "attends" THEN Code(Attended(ids[r], mask[r]), 1)
                ELSE Code(ids[r], 1)
    IN  [r \in 1..Len(ids) |->
            [p \in 1..Len(ids[r]) |->
                IF p = 1 THEN <<F32FromInt(c(r)), F32FromInt(1)>>
                ELSE <<Zero(FALSE), F32FromInt(ids[r][p] + 1)>>]]

(***************************************************************************)
(* TextEmbedding::new (lib.rs 242-252).                                    *)
(***************************************************************************)
BaseInputs == {"input_ids", "attention_mask"}
DeclaredInputs == {BaseInputs, BaseInputs \cup {"token_type_ids"}}

new(inputs) == \E name \in inputs : name = "token_type_ids"

(***************************************************************************)
(* TextEmbedding::embed (lib.rs 386-463).                                  *)
(***************************************************************************)
\* chunks_exact: the remainder shorter than n is dropped.
RECURSIVE chunks_exact(_, _)
chunks_exact(s, n) ==
    IF Len(s) < n THEN <<>>
    ELSE <<SubSeq(s, 1, n)>> \o chunks_exact(SubSeq(s, n + 1, Len(s)), n)

\* texts.par_chunks(batch_size), n >= 1.
RECURSIVE par_chunks(_, _)
par_chunks(s, n) ==
    IF s = <<>> THEN <<>>
    ELSE LET take == Min(n, Len(s))
         IN  <<SubSeq(s, 1, take)>> \o par_chunks(SubSeq(s, take + 1, Len(s)), n)

RECURSIVE Flatten(_)
Flatten(ss) == IF ss = <<>> THEN <<>> ELSE Head(ss) \o Flatten(Tail(ss))

\* ids_array / mask_array / typeids_array: the encodings' rows, end to end.
ids_array(encodings) == Flatten([i \in 1..Len(encodings) |-> encodings[i].ids])
mask_all_ones(encodings) ==
    Flatten([i \in 1..Len(encodings) |-> [j \in 1..Len(encodings[i].ids) |-> 1]])
mask_array(encodings) ==
    Flatten([i \in 1..Len(encodings) |-> encodings[i].attention_mask])
typeids_array(encodings) ==
    Flatten([i \in 1..Len(encodings) |-> encodings[i].type_ids])

\* Array::from_shape_vec((rows, cols), flat): Err unless the lengths agree.
from_shape_vec(rows, cols, flat) ==
    IF Len(flat) = rows * cols
    THEN [ok |-> TRUE,
          array |-> [r \in 1..rows |-> SubSeq(flat, (r - 1) * cols + 1, r * cols)]]
    ELSE [ok |-> FALSE, array |-> <<>>]

\* The names of the inputs a run call carries.
input_names_always_three(need) == BaseInputs \cup {"token_type_ids"}
input_names(need) ==
    IF need THEN BaseInputs \cup {"token_type_ids"} ELSE BaseInputs

\* session_inputs: the named tensors of one batch.
session_inputs(need, a_ids, a_mask, a_typeids) ==
    [name \in input_names(need) |->
        CASE name = "input_ids" -> a_ids
          [] name = "attention_mask" -> a_mask
          [] OTHER -> a_typeids]

\* output_data.slice(s![.., 0, ..]).rows() mapped through normalize.
embeddings(output_data) ==
    [r \in 1..Len(output_data) |-> normalize(output_data[r][1])]

\* The closure's results of a call.
Ok(v) == [tag |-> "Ok", val |-> v, kind |-> "none"]
Err(kind) == [tag |-> "Err", val |-> <<>>, kind |-> kind]
Panic(kind) == [tag |-> "Panic", val |-> <<>>, kind |-> kind]
NoResult == [tag |-> "none", val |-> <<>>, kind |-> "none"]

Failed(p) == {k \in DOMAIN p : p[k] = "failed"}

\* The batches' embeddings in the order `done` in which the closures ended.
RECURSIVE InCompletionOrder(_, _)
InCompletionOrder(r, done) ==
    IF done = <<>> THEN <<>>
    ELSE r[Head(done)].val \o InCompletionOrder(r, Tail(done))

collect_by_completion(r, done) == InCompletionOrder(r, done)

\* .flat_map(..).collect(): rayon places every batch's embeddings by the
\* batch's position, whatever the order `done` in which the closures ended.
collect(r, done) == Flatten([k \in 1..Len(r) |-> r[k].val])

\* A collection that skips the batches that failed.
embed_result_lenient(r, p, k, done) == Ok(collect(r, done))

\* What embed hands its caller: result.unwrap() panics on the failed batch k
\* (0: none failed), and only otherwise is Ok(output) returned.
embed_result(r, p, k, done) ==
    IF k # 0 THEN Panic(r[k].kind) ELSE Ok(collect(r, done))

BatchSizes == {None} \cup {Some(b) : b \in 0..MaxBatch}

IdleCall ==
    /\ phase = "idle"
    /\ texts = <<>>
    /\ batch_size = None
    /\ batches = <<>>
    /\ pc = <<>>
    /\ tensors = <<>>
    /\ res = <<>>
    /\ encodeCalls = <<>>
    /\ runCalls = <<>>
    /\ finished = <<>>
    /\ ret = NoResult

IdleTok == tkFiles = <<>> /\ tkRequested = 0 /\ tkOut = NoResult
IdleNorm == nrow = <<>> /\ nout = <<>>

\* The state after construction: new() has cached the flag.
Init ==
    /\ sessionInputs \in DeclaredInputs
    /\ engine \in Engines
    /\ need_token_type_ids = new(sessionInputs)
    /\ max_length = MaxLength
    /\ runNames = {}
    /\ IdleCall
    /\ IdleTok
    /\ IdleNorm

\* embed(texts, batch_size) is entered: the input is cut into batches.
Embed(ts, bs) ==
    /\ phase = "idle"
    /\ texts' = ts
    /\ batch_size' = bs
    /\ LET size == IF bs = None THEN DEFAULT_BATCH_SIZE ELSE bs[1]
       IN  IF size = 0
           THEN \* par_chunks asserts chunk_size != 0
                /\ batches' = <<>>
                /\ phase' = "panicked"
                /\ ret' = Panic("ZeroChunkSize")
           ELSE /\ batches' = par_chunks(ts, size)
                /\ phase' = "running"
                /\ ret' = NoResult
    /\ pc' = [k \in 1..Len(batches') |-> "todo"]
    /\ tensors' = [k \in 1..Len(batches') |-> <<>>]
    /\ res' = [k \in 1..Len(batches') |-> NoResult]
    /\ encodeCalls' = [k \in 1..Len(batches') |-> 0]
    /\ runCalls' = [k \in 1..Len(batches') |-> 0]
    /\ finished' = <<>>
    /\ UNCHANGED <<sessionInputs, engine, need_token_type_ids, max_length, runNames>>
    /\ UNCHANGED <<tokVars, normVars>>

\* An encoding failure swallowed: the closure goes on with empty arrays.
EncodeFailIgnored(k) ==
    /\ phase = "running"
    /\ pc[k] = "todo"
    /\ encodeCalls' = [encodeCalls EXCEPT ![k] = @ + 1]
    /\ pc' = [pc EXCEPT ![k] = "ready"]
    /\ tensors' = [tensors EXCEPT ![k] =
            session_inputs(need_token_type_ids, <<>>, <<>>, <<>>)]
    /\ UNCHANGED <<sessionInputs, engine, need_token_type_ids, max_length, phase, texts,
                   batch_size, batches, res, finished, runCalls, runNames, ret>>
    /\ UNCHANGED <<tokVars, normVars>>

\* A worker's closure on batch k: encode_batch fails and unwrap() panics.
EncodeFail(k) ==
    /\ phase = "running"
    /\ pc[k] = "todo"
    /\ encodeCalls' = [encodeCalls EXCEPT ![k] = @ + 1]
    /\ pc' = [pc EXCEPT ![k] = "failed"]
    /\ res' = [res EXCEPT ![k] = Panic("EncodingError")]
    /\ finished' = finished
    /\ UNCHANGED <<sessionInputs, engine, need_token_type_ids, max_length, phase, texts,
                   batch_size, batches, tensors, runCalls, runNames, ret>>
    /\ UNCHANGED <<tokVars, normVars>>

\* The three reshapes of batch k, lib.rs 402-433.
reshaped(batch, maxlen) ==
    LET encodings == encode_batch(batch, maxlen)
        encoding_length == Len(encodings[1].ids)
        bsz == Len(batch)
    IN  [ids |-> from_shape_vec(bsz, encoding_length, ids_array(encodings)),
         mask |-> from_shape_vec(bsz, encoding_length, mask_array(encodings)),
         typeids |-> from_shape_vec(bsz, encoding_length, typeids_array(encodings))]

\* A worker's closure on batch k, lib.rs 435-442: the encoding and the
\* reshapes succeeded, and Value::from_array(..)? (input_ids, attention_mask,
\* token_type_ids) or ort::inputs![..]? returns Err before session.run.
InputsFail(k) ==
    /\ phase = "running"
    /\ pc[k] = "todo"
    /\ LET arrays == reshaped(batches[k], max_length)
       IN  arrays.ids.ok /\ arrays.mask.ok /\ arrays.typeids.ok
    /\ encodeCalls' = [encodeCalls EXCEPT ![k] = @ + 1]
    /\ pc' = [pc EXCEPT ![k] = "failed"]
    /\ res' = [res EXCEPT ![k] = Err("InputValueError")]
    /\ finished' = finished
    /\ UNCHANGED <<sessionInputs, engine, need_token_type_ids, max_length, phase, texts,
                   batch_size, batches, tensors, runCalls, runNames, ret>>
    /\ UNCHANGED <<tokVars, normVars>>

\* A worker's closure on batch k, lib.rs 398-442: encode, flatten, reshape,
\* build the named inputs (the Err of a reshape is the ELSE branch; the Err of
\* building the input values is InputsFail).
Encode(k) ==
    /\ phase = "running"
    /\ pc[k] = "todo"
    /\ encodeCalls' = [encodeCalls EXCEPT ![k] = @ + 1]
    /\ LET arrays == reshaped(batches[k], max_length)
           inputs_ids_array == arrays.ids
           attention_mask_array == arrays.mask
           token_type_ids_array == arrays.typeids
       IN  IF inputs_ids_array.ok /\ attention_mask_array.ok /\ token_type_ids_array.ok
           THEN /\ tensors' = [tensors EXCEPT ![k] =
                        session_inputs(need_token_type_ids, inputs_ids_array.array,
                                       attention_mask_array.array,
                                       token_type_ids_array.array)]
                /\ pc' = [pc EXCEPT ![k] = "ready"]
                /\ res' = res
                /\ finished' = finished
           ELSE /\ tensors' = tensors
                /\ pc' = [pc EXCEPT ![k] = "failed"]
                /\ res' = [res EXCEPT ![k] = Err("TensorShapeError")]
                /\ finished' = finished
    /\ UNCHANGED <<sessionInputs, engine, need_token_type_ids, max_length, phase, texts,
                   batch_size, batches, runCalls, runNames, ret>>
    /\ UNCHANGED <<tokVars, normVars>>

\* What a run call leaves in the counters.
RunCalled(k) ==
    /\ runCalls' = [runCalls EXCEPT ![k] = @ + 1]
    /\ runNames' = runNames \cup {DOMAIN tensors[k]}

\* session.run(session_inputs)? fails.
RunFail(k) ==
    /\ phase = "running"
    /\ pc[k] = "ready"
    /\ RunCalled(k)
    /\ pc' = [pc EXCEPT ![k] = "failed"]
    /\ res' = [res EXCEPT ![k] = Err("InferenceRuntimeError")]
    /\ finished' = finished
    /\ UNCHANGED <<sessionInputs, engine, need_token_type_ids, max_length, phase, texts,
                   batch_size, batches, tensors, encodeCalls, ret>>
    /\ UNCHANGED <<tokVars, normVars>>

\* session.run succeeds and extract_tensor::<f32>()? fails.
ExtractFail(k) ==
    /\ phase = "running"
    /\ pc[k] = "ready"
    /\ RunCalled(k)
    /\ pc' = [pc EXCEPT ![k] = "failed"]
    /\ res' = [res EXCEPT ![k] = Err("TensorShapeError")]
    /\ finished' = finished
    /\ UNCHANGED <<sessionInputs, engine, need_token_type_ids, max_length, phase, texts,
                   batch_size, batches, tensors, encodeCalls, ret>>
    /\ UNCHANGED <<tokVars, normVars>>

\* lib.rs 444-457: run, extract, take position 0 of every row, normalize.
Run(k) ==
    /\ phase = "running"
    /\ pc[k] = "ready"
    /\ RunCalled(k)
    /\ LET output_data == EngineRun(engine, tensors[k])
       IN  res' = [res EXCEPT ![k] = Ok(embeddings(output_data))]
    /\ pc' = [pc EXCEPT ![k] = "ok"]
    /\ finished' = Append(finished, k)
    /\ UNCHANGED <<sessionInputs, engine, need_token_type_ids, max_length, phase, texts,
                   batch_size, batches, tensors, encodeCalls, ret>>
    /\ UNCHANGED <<tokVars, normVars>>

\* The parallel iterator ends: every closure that started has ended, and
\* either all batches are done or a failure unwinds past the ones not begun.
Return ==
    /\ phase = "running"
    /\ \A k \in DOMAIN pc : pc[k] \in {"todo", "ok", "failed"}
    /\ \/ \A k \in DOMAIN pc : pc[k] = "ok"
       \/ Failed(pc) # {}
    /\ \E k \in (IF Failed(pc) = {} THEN {0} ELSE Failed(pc)) :
          /\ ret' = embed_result(res, pc, k, finished)
          /\ phase' = IF ret'.tag = "Panic" THEN "panicked" ELSE "returned"
    /\ UNCHANGED <<sessionInputs, engine, need_token_type_ids, max_length, texts,
                   batch_size, batches, pc, tensors, res, encodeCalls, runCalls,
                   runNames, finished>>
    /\ UNCHANGED <<tokVars, normVars>>

\* The caller has taken the outcome; the instance, unchanged, is ready for
\* its next call.
EndCall ==
    /\ phase \in {"returned", "panicked"}
    /\ phase' = "idle"
    /\ texts' = <<>>
    /\ batch_size' = None
    /\ batches' = <<>>
    /\ pc' = <<>>
    /\ tensors' = <<>>
    /\ res' = <<>>
    /\ encodeCalls' = <<>>
    /\ runCalls' = <<>>
    /\ finished' = <<>>
    /\ ret' = NoResult
    /\ UNCHANGED <<sessionInputs, engine, need_token_type_ids, max_length, runNames>>
    /\ UNCHANGED <<tokVars, normVars>>

Next ==
    \/ \E ts \in SeqsUpTo(Texts, MaxTexts), bs \in BatchSizes : Embed(ts, bs)
    \/ \E k \in DOMAIN pc : EncodeFail(k)
    \/ \E k \in DOMAIN pc : InputsFail(k)
    \/ \E k \in DOMAIN pc : Encode(k)
    \/ \E k \in DOMAIN pc : RunFail(k)
    \/ \E k \in DOMAIN pc : ExtractFail(k)
    \/ \E k \in DOMAIN pc : Run(k)
    \/ Return
    \/ EndCall

Spec == Init /\ [][Next]_vars

(***************************************************************************)
(* Properties of the embed pipeline, checked under Spec.                   *)
(***************************************************************************)
NumTexts == Len(texts)
BatchSize == IF batch_size = None THEN DEFAULT_BATCH_SIZE ELSE batch_size[1]
Ended == phase \in {"returned", "panicked"}

\* The index of the batch that holds text i, and the batch's bounds.
BatchOf(i) == ((i - 1) \div BatchSize) + 1
BatchLo(k) == (k - 1) * BatchSize + 1
BatchHi(k) == Min(k * BatchSize, NumTexts)

\* The embedding of text i computed on its own row: the text truncated and
\* padded to the longest truncated text of its batch, run through the
\* engine, position 0 normalized.
RowEmbedding(i) ==
    LET k == BatchOf(i)
        longest == MaxLen([j \in 1..(BatchHi(k) - BatchLo(k) + 1) |->
                              Truncate(texts[BatchLo(k) + j - 1], max_length)])
        enc == PadEncoding(Truncate(texts[i], max_length), longest)
        out == EngineRun(engine, session_inputs(need_token_type_ids, <<enc.ids>>,
                                        <<enc.attention_mask>>, <<enc.type_ids>>))
    IN  embeddings(out)[1]

\* C1: when embed succeeds, the i-th output embedding is the one computed
\* from the i-th input text, for every i, whatever the batch size and
\* whatever the order in which the workers ended.
C1_OrderPreserved ==
    phase = "returned" =>
        /\ ret.tag = "Ok"
        /\ Len(ret.val) = NumTexts
        /\ \A i \in 1..NumTexts : ret.val[i] = RowEmbedding(i)

\* C1 witness: a successful call on two different texts in different
\* batches, the later batch ended first.
C1_Witness ==
    /\ phase = "returned"
    /\ NumTexts >= 2
    /\ Len(batches) >= 2
    /\ texts[1] # texts[NumTexts]
    /\ finished[1] # 1

\* C2: embed is all-or-nothing: the caller gets one embedding per input
\* text, or, once any batch failed, no embedding at all, whatever other
\* batches had completed; nothing is handed over before the call ends.
C2_AllOrNothing ==
    /\ phase = "running" => ret = NoResult
    /\ Ended =>
          \/ /\ ret.tag = "Ok"
             /\ Len(ret.val) = NumTexts
             /\ Failed(pc) = {}
          \/ /\ ret.tag # "Ok"
             /\ ret.val = <<>>
             /\ Failed(pc) # {} \/ batch_size = Some(0)

\* C2 witness: the call ended without a value although a batch had
\* completed on another worker.
C2_Witness ==
    /\ phase = "panicked"
    /\ \E k \in DOMAIN pc : pc[k] = "ok" /\ res[k].val # <<>>
    /\ Failed(pc) # {}

FailureKinds == {"EncodingError", "TensorShapeError", "InferenceRuntimeError"}

\* C3: every failure inside an embed call reaches the caller as a returned
\* error value that names the kind of a failure that occurred.
C3_FailureIsErrorValue ==
    (Ended /\ Failed(pc) # {}) =>
        /\ ret.tag = "Err"
        /\ ret.kind \in FailureKinds
        /\ \E k \in Failed(pc) : res[k].kind = ret.kind

ExpectedNames ==
    IF "token_type_ids" \in sessionInputs
    THEN {"input_ids", "attention_mask", "token_type_ids"}
    ELSE {"input_ids", "attention_mask"}

\* C4: every run call of every embed call on an instance carries exactly
\* input_ids and attention_mask when the network declares no token_type_ids
\* input, and exactly those two plus token_type_ids when it does; the flag
\* is the one computed at construction.
C4_InputsMatchDeclared ==
    /\ need_token_type_ids = ("token_type_ids" \in sessionInputs)
    /\ \A names \in runNames :
          /\ names = ExpectedNames
          /\ Cardinality(names) = IF "token_type_ids" \in sessionInputs THEN 3 ELSE 2
    /\ \A k \in DOMAIN pc : pc[k] = "ready" => DOMAIN tensors[k] = ExpectedNames

\* C4 witness: on a network without token_type_ids one batch has been run
\* while another still waits.
C4_Witness ==
    /\ "token_type_ids" \notin sessionInputs
    /\ phase = "running"
    /\ \E k \in DOMAIN pc : runCalls[k] = 1 /\ encodeCalls[k] = 1
    /\ runNames # {}
    /\ \E k \in DOMAIN pc : pc[k] = "todo"

\* What the closure computes for the whole input taken as one batch.
SingleBatch(ts) ==
    LET encodings == encode_batch(ts, max_length)
        len == Len(encodings[1].ids)
        a_ids == from_shape_vec(Len(ts), len, ids_array(encodings))
        a_mask == from_shape_vec(Len(ts), len, mask_array(encodings))
        a_type == from_shape_vec(Len(ts), len, typeids_array(encodings))
    IN  embeddings(EngineRun(engine, session_inputs(need_token_type_ids, a_ids.array,
                                                    a_mask.array, a_type.array)))

\* The arrays the closure builds for the whole input taken as one batch.
SingleInputs(ts) ==
    LET encodings == encode_batch(ts, max_length)
        len == Len(encodings[1].ids)
    IN  [ids |-> from_shape_vec(Len(ts), len, ids_array(encodings)).array,
         mask |-> from_shape_vec(Len(ts), len, mask_array(encodings)).array]

InClaimedRange == batch_size # None /\ 1 <= BatchSize /\ BatchSize <= NumTexts

\* Text j of batch k is given to the engine with the attended tokens it has
\* in the single batch, followed by nothing but masked padding.
SameAttended(k, j, one) ==
    LET ids == tensors[k]["input_ids"][j]
        mask == tensors[k]["attention_mask"][j]
        i == BatchLo(k) + j - 1
        seen == Attended(ids, mask)
    IN  /\ seen = Attended(one.ids[i], one.mask[i])
        /\ seen = SubSeq(ids, 1, Len(seen))
        /\ Len(ids) <= Len(one.ids[i])
        /\ \A p \in (Len(seen) + 1)..Len(ids) : ids[p] = PadId /\ mask[p] = 0

\* C5 as stated: for every batch size B with 1 <= B <= N, the result of
\* embed(texts, B) is, text by text, the result of embedding the same texts
\* as one batch.
C5_BatchingEquivalent ==
    (phase = "returned" /\ InClaimedRange) => ret.val = SingleBatch(texts)

\* C5 (amended): for every batch size B with 1 <= B <= N, every text reaches
\* the engine with the same attended tokens as in the single batch, its row
\* differing only in the number of trailing masked pad positions; and the
\* result of embed(texts, B) is, text by text, that of the single batch
\* when the engine reads only attended positions.
C5_SameUpToPadding ==
    /\ (phase \in {"running", "returned", "panicked"} /\ InClaimedRange) =>
          LET one == SingleInputs(texts)
          IN  \A k \in DOMAIN tensors :
                  tensors[k] # <<>> =>
                      \A j \in 1..Len(batches[k]) : SameAttended(k, j, one)
    /\ (phase = "returned" /\ InClaimedRange /\ engine = "attends") =>
          ret.val = SingleBatch(texts)

\* C5 witness: a successful call on an engine that reads only attended
\* positions, whose batches were padded to different lengths, one of them
\* shorter than the single batch would be.
C5_Witness ==
    /\ phase = "returned"
    /\ engine = "attends"
    /\ InClaimedRange
    /\ BatchSize < NumTexts
    /\ \E j, k \in DOMAIN tensors :
          Len(tensors[j]["input_ids"][1]) < Len(tensors[k]["input_ids"][1])

\* C9: the batches of a call with batch size B >= 1 (256 when none is
\* passed) are ceil(N/B) non-empty contiguous slices of at most B texts in
\* input order, all but the last of exactly B, batch k holding texts
\* (k-1)*B+1 .. min(k*B, N); with no text there is no batch and no call of
\* the tokenizer or the engine.
C9_OrderedPartition ==
    (phase # "idle" /\ BatchSize >= 1) =>
        /\ Len(batches) = (NumTexts + BatchSize - 1) \div BatchSize
        /\ batch_size = None => BatchSize = 256
        /\ \A k \in 1..Len(batches) :
              /\ Len(batches[k]) >= 1
              /\ Len(batches[k]) <= BatchSize
              /\ k < Len(batches) => Len(batches[k]) = BatchSize
              /\ Len(batches[k]) = BatchHi(k) - BatchLo(k) + 1
              /\ \A j \in 1..Len(batches[k]) : batches[k][j] = texts[BatchLo(k) + j - 1]
        /\ \A i \in 1..NumTexts :
              Cardinality({k \in 1..Len(batches) : BatchLo(k) <= i /\ i <= BatchHi(k)}) = 1
        /\ DOMAIN encodeCalls = DOMAIN batches /\ DOMAIN runCalls = DOMAIN batches
        /\ NumTexts = 0 => (batches = <<>> /\ encodeCalls = <<>> /\ runCalls = <<>>)

\* C9 witness: three texts cut by batch size two: a full batch and a
\* shorter last one, both processed.
C9_Witness ==
    /\ phase = "returned"
    /\ NumTexts = 3
    /\ batch_size = Some(2)
    /\ Len(batches) = 2
    /\ Len(batches[2]) = 1

\* The arrays handed to the engine for batch k have the batch's shape.
ShapedForBatch(k) ==
    LET len == Len(encode_batch(batches[k], max_length)[1].ids)
    IN  /\ tensors[k] # <<>>
        /\ \A name \in DOMAIN tensors[k] :
              /\ Len(tensors[k][name]) = Len(batches[k])
              /\ \A r \in 1..Len(tensors[k][name]) : Len(tensors[k][name][r]) = len
              /\ Len(Flatten(tensors[k][name])) = Len(batches[k]) * len

\* C10 (amended): within one call, encode_batch and run are each invoked at
\* most once per batch and never again; once for every batch a worker has
\* begun, and once each for every batch of a call that succeeds; run is
\* invoked only after the batch's encoding succeeded and its arrays were
\* reshaped to (batch size, length of the first encoding).
C10_AtMostOnceInOrder ==
    \A k \in DOMAIN pc :
        /\ encodeCalls[k] <= 1
        /\ runCalls[k] <= 1
        /\ pc[k] # "todo" <=> encodeCalls[k] = 1
        /\ phase = "returned" => (encodeCalls[k] = 1 /\ runCalls[k] = 1)
        /\ runCalls[k] = 1 => ShapedForBatch(k)
        /\ res[k].kind \in {"EncodingError", "InputValueError"} => runCalls[k] = 0

\* C10 witness: a batch whose encoding failed has ended without a run call
\* while another batch was encoded once and run once.
C10_Witness ==
    /\ \E k \in DOMAIN pc :
          pc[k] = "failed" /\ res[k].kind = "EncodingError" /\ runCalls[k] = 0
    /\ \E k \in DOMAIN pc : pc[k] = "ok" /\ encodeCalls[k] = 1 /\ runCalls[k] = 1

\* C10 as stated: in every call, the encode-batch operation is invoked
\* exactly once for every batch.
C10_EncodeExactlyOnce ==
    Ended => \A k \in DOMAIN pc : encodeCalls[k] = 1

(***************************************************************************)
(* normalize on its own (lib.rs 449-455, 476-482): the engine has returned *)
(* nrow at position 0 of a one-text batch, and embed extracts and          *)
(* normalizes it.  A row has 1..MaxDim elements, each any of NormValues:   *)
(* ordinary values, values near normalize's epsilon, values whose squares  *)
(* underflow or overflow, and the non-finite ones.                         *)
(***************************************************************************)
NormValues ==
    { Zero(FALSE),
      F32FromInt(1), F32FromInt(-1), F32FromInt(3), F32FromInt(4),
      Fin(FALSE, 10066330, -24),      \* 0.6
      Fin(TRUE, 13421773, -24),       \* -0.8
      Fin(FALSE, 13421773, -27),      \* 0.1
      Fin(FALSE, 8796093, -43),       \* 1e-6
      Fin(FALSE, 8444249, -47),       \* 6e-8
      Fin(FALSE, 11258999, -47),      \* 8e-8
      Fin(FALSE, 9223372, -63),       \* 1e-12
      Fin(FALSE, 12379400, -90),      \* 1e-20: the square is subnormal
      Fin(FALSE, 1, -149),            \* the least subnormal: the square is 0
      Fin(FALSE, 14551915, 36),       \* 1e18
      Fin(FALSE, 13642421, 40),       \* 1.5e19: two squares overflow the sum
      Fin(FALSE, 16777215, 104),      \* f32::MAX: the square overflows
      Inf(FALSE), NaN }

NormRows == SeqsUpTo(NormValues, MaxDim) \ {<<>>}

InitNorm ==
    /\ nrow \in NormRows
    /\ nout = <<>>
    /\ sessionInputs = BaseInputs
    /\ engine = "attends"
    /\ need_token_type_ids = new(sessionInputs)
    /\ max_length = MaxLength
    /\ runNames = {}
    /\ IdleCall
    /\ IdleTok

NormalizeRow ==
    /\ nout = <<>>
    /\ LET other == [i \in 1..Len(nrow) |-> F32FromInt(5)]
           output_data == << <<nrow, other>> >>
       IN  nout' = embeddings(output_data)[1]
    /\ UNCHANGED <<nrow, pipeVars, tokVars>>

NextNorm == NormalizeRow

SpecNorm == InitNorm /\ [][NextNorm]_vars

(***************************************************************************)
(* Exact measurement of f32 results: natural numbers of any size, as       *)
(* sequences of 12-bit limbs, least significant first, no leading zero.    *)
(***************************************************************************)
LimbBase == 2 ^ 12

RECURSIVE BigFromInt(_)
BigFromInt(n) == IF n = 0 THEN <<>> ELSE <<n % LimbBase>> \o BigFromInt(n \div LimbBase)

RECURSIVE BigAdd(_, _, _)
BigAdd(a, b, carry) ==
    IF a = <<>> /\ b = <<>> THEN BigFromInt(carry)
    ELSE LET t == (IF a = <<>> THEN 0 ELSE Head(a))
                  + (IF b = <<>> THEN 0 ELSE Head(b)) + carry
         IN  <<t % LimbBase>> \o BigAdd(IF a = <<>> THEN <<>> ELSE Tail(a),
                                        IF b = <<>> THEN <<>> ELSE Tail(b),
                                        t \div LimbBase)

\* a * k + carry, 0 < k <= LimbBase
RECURSIVE BigScale(_, _, _)
BigScale(a, k, carry) ==
    IF a = <<>> THEN BigFromInt(carry)
    ELSE LET t == Head(a) * k + carry
         IN  <<t % LimbBase>> \o BigScale(Tail(a), k, t \div LimbBase)

BigShiftLimbs(a, n) == IF a = <<>> THEN <<>> ELSE [i \in 1..n |-> 0] \o a

RECURSIVE BigMul(_, _)
BigMul(a, b) ==
    IF a = <<>> \/ b = <<>> THEN <<>>
    ELSE BigAdd(IF Head(b) = 0 THEN <<>> ELSE BigScale(a, Head(b), 0),
                BigShiftLimbs(BigMul(a, Tail(b)), 1), 0)

\* a * 2^bits
BigShl(a, bits) == BigShiftLimbs(BigScale(a, 2 ^ (bits % 12), 0), bits \div 12)

BigLeq(a, b) ==
    \/ Len(a) < Len(b)
    \/ /\ Len(a) = Len(b)
       /\ \/ a = b
          \/ LET top == CHOOSE i \in 1..Len(a) :
                            a[i] # b[i] /\ \A j \in (i + 1)..Len(a) : a[j] = b[j]
             IN  a[top] < b[top]

\* The tolerance of the norm claim, 1e-5, as a fraction, and the rows the
\* amended claim covers: at most 256 elements, of norm at least 1e-6.
Tolerance == [num |-> 1, den |-> 100000]
Covered == [elements |-> 256, norm |-> [num |-> 1, den |-> 1000000]]
NormThreshold == Covered.norm

FiniteRow(v) == \A i \in 1..Len(v) : v[i].cls \in {"fin", "zero"}
ZeroRow(v) == \A i \in 1..Len(v) : v[i].cls = "zero"

\* The least exponent among the non-zero elements of a finite row.
MinExp(v) ==
    LET es == {v[i].e : i \in {j \in 1..Len(v) : v[j].cls = "fin"}}
    IN  CHOOSE e \in es : \A f \in es : e <= f

\* The exact sum of the squares of a finite row, in units of 2^(2 * emin).
RECURSIVE BigSumSq(_, _)
BigSumSq(v, emin) ==
    IF v = <<>> THEN <<>>
    ELSE LET x == IF Head(v).cls = "fin"
                  THEN BigShl(BigFromInt(Head(v).m), Head(v).e - emin) ELSE <<>>
         IN  BigAdd(BigMul(x, x), BigSumSq(Tail(v), emin), 0)

\* | L2 norm of e - 1 | <= Tolerance, exactly:
\* (1 - tol)^2 <= sum of squares <= (1 + tol)^2.
WithinTolerance(e) ==
    /\ FiniteRow(e)
    /\ ~ZeroRow(e)
    /\ LET emin == MinExp(e)
           den == BigFromInt(Tolerance.den)
           lo == BigFromInt(Tolerance.den - Tolerance.num)
           hi == BigFromInt(Tolerance.den + Tolerance.num)
           sum == BigMul(BigSumSq(e, emin), BigMul(den, den))
       IN  /\ emin <= 0
           /\ BigLeq(BigShl(BigMul(lo, lo), 0 - 2 * emin), sum)
           /\ BigLeq(sum, BigShl(BigMul(hi, hi), 0 - 2 * emin))

\* The row's norm as normalize computes it.
RowNorm(v) == f32_sqrt(sum_of_squares(v, Zero(TRUE)))

\* An f32 is a finite number, at least the fraction q.
FiniteAtLeast(x, q) ==
    /\ x.cls = "fin"
    /\ ~x.neg
    /\ \/ x.e >= 0
       \/ BigLeq(BigShl(BigFromInt(q.num), 0 - x.e),
                 BigMul(BigFromInt(x.m), BigFromInt(q.den)))

\* C7 as stated: every embedding has L2 norm within 1e-5 of 1.0, whatever
\* row the engine returned at position 0, near-zero rows included.
C7_UnitNormAlways ==
    nout # <<>> => WithinTolerance(nout)

\* C7 (amended): every embedding has L2 norm within 1e-5 of 1.0 for every
\* row of at most 256 elements whose norm, as normalize computes it in f32,
\* is a finite number of at least 1e-6; the all-zero row gives the all-zero
\* embedding.
C7_UnitNormFromThreshold ==
    nout # <<>> =>
        /\ (Len(nrow) <= Covered.elements /\ FiniteAtLeast(RowNorm(nrow), NormThreshold))
              => WithinTolerance(nout)
        /\ ZeroRow(nrow) => ZeroRow(nout)

\* C7 witness: a row of two non-zero elements that are no whole numbers,
\* of norm above the threshold, has been normalized to within the tolerance
\* of 1.
C7_Witness ==
    /\ nout # <<>>
    /\ Len(nrow) = 2
    /\ nrow[1] = Fin(FALSE, 10066330, -24)
    /\ nrow[2] = Fin(FALSE, 13421773, -27)
    /\ FiniteAtLeast(RowNorm(nrow), NormThreshold)
    /\ WithinTolerance(nout)

(***************************************************************************)
(* load_tokenizer (lib.rs 288-369) on bounded tokenizer files.             *)
(*                                                                         *)
(* A JSON value is a record: null (what indexing a missing key gives), a   *)
(* string, a boolean, or a number mant * 10^exp; an object is a function   *)
(* from its keys to values.  A file is "invalid" when its bytes do not     *)
(* parse.                                                                  *)
(***************************************************************************)
JNull == [type |-> "null", str |-> "", mant |-> 0, exp |-> 0]
JStr(s) == [type |-> "string", str |-> s, mant |-> 0, exp |-> 0]
JNum(m, e) == [type |-> "number", str |-> "", mant |-> m, exp |-> e]
JBool(b) == [type |-> "bool", str |-> "", mant |-> IF b THEN 1 ELSE 0, exp |-> 0]
JArray == [type |-> "array", str |-> "", mant |-> 0, exp |-> 0]

IsObject(v) == "type" \notin DOMAIN v
Index(obj, key) == IF key \in DOMAIN obj THEN obj[key] ELSE JNull

as_f64(v) == IF v.type = "number" THEN Some(v) ELSE None
as_u64(v) ==
    IF v.type = "number" /\ v.exp = 0 /\ v.mant >= 0 THEN Some(v.mant) ELSE None
as_str(v) == IF v.type = "string" THEN Some(v.str) ELSE None
as_bool(v) == IF v.type = "bool" THEN Some(v.mant = 1) ELSE None

\* The spacing of f32 values at m: 1 below 2^24, doubling with each binade.
RECURSIVE Ulp(_)
Ulp(m) == IF m < 2 ^ F32_MANTISSA_BITS THEN 1 ELSE 2 * Ulp(m \div 2)

\* `as f32` of a non-negative whole f64: the nearest f32, ties to even.
RoundF32(m) ==
    LET ulp == Ulp(m)
        q == m \div ulp
        r == m % ulp
    IN  IF 2 * r < ulp THEN q * ulp
        ELSE IF 2 * r > ulp THEN (q + 1) * ulp
        ELSE IF q % 2 = 0 THEN q * ulp ELSE (q + 1) * ulp

\* A usize: a number below 2^31, or usize::MAX.
Usize(n) == [max |-> FALSE, n |-> n]
UsizeMax == [max |-> TRUE, n |-> 0]

\* `(v as f32) as usize` of the f64 v = mant * 10^exp: the cast saturates,
\* so a negative value gives 0 and a value of 10^20 or more gives usize::MAX.
model_max_length_exact(v) ==
    IF v.mant <= 0 THEN Usize(0)
    ELSE IF v.exp >= 20 THEN UsizeMax
    ELSE Usize(v.mant * 10 ^ v.exp)
model_max_length_as_usize(v) ==
    IF v.mant <= 0 THEN Usize(0)
    ELSE IF v.exp >= 20 THEN UsizeMax
    ELSE Usize(RoundF32(v.mant * 10 ^ v.exp))

\* max_length.min(model_max_length as usize)
usize_min(requested, m) == IF m.max THEN requested ELSE Min(requested, m.n)

TokOk(maxlen, padid, padtoken, special) ==
    [tag |-> "Ok", kind |-> "none", max_length |-> maxlen, pad_id |-> padid,
     pad_token |-> padtoken, special |-> special]
TokFail(tag, kind) ==
    [tag |-> tag, kind |-> kind, max_length |-> 0, pad_id |-> 0,
     pad_token |-> "", special |-> <<>>]

\* A special-token entry whose missing attributes default to false.
added_token_lenient(value) ==
    IF IsObject(value)
    THEN [tag |-> "token",
          content |-> IF as_str(Index(value, "content")) # None
                      THEN as_str(Index(value, "content"))[1] ELSE "",
          single_word |-> as_bool(Index(value, "single_word")) = Some(TRUE),
          lstrip |-> as_bool(Index(value, "lstrip")) = Some(TRUE),
          rstrip |-> as_bool(Index(value, "rstrip")) = Some(TRUE),
          normalized |-> as_bool(Index(value, "normalized")) = Some(TRUE)]
    ELSE IF value.type = "string"
    THEN \* AddedToken { content, special: true, ..Default::default() }:
         \* the default of tokenizers::AddedToken has normalized = true.
         [tag |-> "token", content |-> value.str, single_word |-> FALSE,
          lstrip |-> FALSE, rstrip |-> FALSE, normalized |-> TRUE]
    ELSE [tag |-> "skip"]

\* The AddedToken of one special_tokens_map entry, or the panic of an
\* unwrap() on a field that is missing or of another type; "skip" for a
\* value that is neither a string nor an object.
added_token(value) ==
    IF IsObject(value)
    THEN IF /\ as_str(Index(value, "content")) # None
            /\ as_bool(Index(value, "single_word")) # None
            /\ as_bool(Index(value, "lstrip")) # None
            /\ as_bool(Index(value, "rstrip")) # None
            /\ as_bool(Index(value, "normalized")) # None
         THEN [tag |-> "token",
               content |-> as_str(Index(value, "content"))[1],
               single_word |-> as_bool(Index(value, "single_word"))[1],
               lstrip |-> as_bool(Index(value, "lstrip"))[1],
               rstrip |-> as_bool(Index(value, "rstrip"))[1],
               normalized |-> as_bool(Index(value, "normalized"))[1]]
         ELSE [tag |-> "panic"]
    ELSE IF value.type = "string"
    THEN \* AddedToken { content, special: true, ..Default::default() }:
         \* the default of tokenizers::AddedToken has normalized = true.
         [tag |-> "token", content |-> value.str, single_word |-> FALSE,
          lstrip |-> FALSE, rstrip |-> FALSE, normalized |-> TRUE]
    ELSE [tag |-> "skip"]

\* config["pad_token_id"].as_u64().unwrap_or(0)
pad_id_of(config) ==
    LET id == as_u64(Index(config.doc, "pad_token_id"))
    IN  IF id = None THEN 0 ELSE id[1]

\* The special tokens registered by the loop over the map's entries.
special_tokens(map) ==
    IF map.root = "object"
    THEN LET added == [i \in 1..Len(map.entries) |-> added_token(map.entries[i])]
         IN  IF \E i \in 1..Len(added) : added[i].tag = "panic"
             THEN [tag |-> "panic", tokens |-> <<>>]
             ELSE [tag |-> "ok",
                   tokens |-> SelectSeq(added, LAMBDA a : a.tag = "token")]
    ELSE [tag |-> "ok", tokens |-> <<>>]

load_tokenizer(files, requested) ==
    IF ~files.config.valid THEN TokFail("Err", "config.json")
    ELSE IF ~files.special_tokens_map.valid THEN TokFail("Err", "special_tokens_map.json")
    ELSE IF ~files.tokenizer_config.valid THEN TokFail("Err", "tokenizer_config.json")
    ELSE IF ~files.tokenizer_ok THEN TokFail("Err", "tokenizer.json")
    ELSE LET model_max_length == as_f64(Index(files.tokenizer_config.doc, "model_max_length"))
             pad_id == pad_id_of(files.config)
             pad_token == as_str(Index(files.tokenizer_config.doc, "pad_token"))
             special == special_tokens(files.special_tokens_map)
         IN  IF model_max_length = None THEN TokFail("Panic", "model_max_length")
             ELSE IF pad_token = None THEN TokFail("Panic", "pad_token")
             ELSE IF ~files.truncation_ok THEN TokFail("Err", "with_truncation")
             ELSE IF special.tag = "panic" THEN TokFail("Panic", "special_tokens_map entry")
             ELSE TokOk(usize_min(requested, model_max_length_as_usize(model_max_length[1])),
                        pad_id, pad_token[1], special.tokens)

\* ---- the bounded files ----
FullToken ==
    [content |-> JStr("[CLS]"), single_word |-> JBool(FALSE), lstrip |-> JBool(FALSE),
     rstrip |-> JBool(FALSE), normalized |-> JBool(TRUE)]
Without(obj, key) == [k \in DOMAIN obj \ {key} |-> obj[k]]
EntryValues ==
    {JStr("[SEP]"), JArray, FullToken,
     [FullToken EXCEPT !.lstrip = JStr("false")]}
    \cup {Without(FullToken, key) : key \in DOMAIN FullToken}

Invalid == [valid |-> FALSE, doc |-> <<>>, root |-> "none", entries |-> <<>>]
Doc(d) == [valid |-> TRUE, doc |-> d, root |-> "object", entries |-> <<>>]
Map(root, es) == [valid |-> TRUE, doc |-> <<>>, root |-> root, entries |-> es]

ConfigFiles ==
    {Invalid} \cup {Doc([model_type |-> JStr("bert")])}
    \cup {Doc([pad_token_id |-> v]) : v \in {JNum(0, 0), JNum(1, 0), JStr("1")}}
ModelMaxLengths ==
    {JNum(20, 0), JNum(DEFAULT_MAX_LENGTH, 0), JNum(16777217, 0), JNum(16777219, 0),
     JNum(1, 30), JStr("512")}
PadTokens == {JStr("[PAD]"), JNum(0, 0)}
TokenizerConfigFiles ==
    {Invalid}
    \cup {Doc([model_max_length |-> m, pad_token |-> t]) : m \in ModelMaxLengths, t \in PadTokens}
    \cup {Doc([model_max_length |-> m]) : m \in ModelMaxLengths}
    \cup {Doc([pad_token |-> t]) : t \in PadTokens}
SpecialTokensMapFiles ==
    {Invalid, Map("array", <<>>)}
    \cup {Map("object", es) : es \in SeqsUpTo(EntryValues, MaxEntries)}
RequestedLengths == {10, 50, DEFAULT_MAX_LENGTH, 16777217}

InitTok ==
    /\ tkFiles \in [tokenizer_ok : BOOLEAN, truncation_ok : BOOLEAN,
                    config : ConfigFiles, special_tokens_map : SpecialTokensMapFiles,
                    tokenizer_config : TokenizerConfigFiles]
    /\ tkRequested \in RequestedLengths
    /\ tkOut = NoResult
    /\ sessionInputs = BaseInputs
    /\ engine = "attends"
    /\ need_token_type_ids = new(sessionInputs)
    /\ max_length = DEFAULT_MAX_LENGTH
    /\ runNames = {}
    /\ IdleCall
    /\ IdleNorm

LoadTokenizer ==
    /\ tkOut = NoResult
    /\ tkOut' = load_tokenizer(tkFiles, tkRequested)
    /\ UNCHANGED <<tkFiles, tkRequested, pipeVars, normVars>>

NextTok == LoadTokenizer

SpecTok == InitTok /\ [][NextTok]_vars

(***************************************************************************)
(* Properties of load_tokenizer, checked under SpecTok.                    *)
(***************************************************************************)
Loaded == tkOut # NoResult
FilesParse ==
    /\ tkFiles.config.valid
    /\ tkFiles.special_tokens_map.valid
    /\ tkFiles.tokenizer_config.valid
    /\ tkFiles.tokenizer_ok
TokConfig == tkFiles.tokenizer_config.doc
HasNumber(doc, key) == key \in DOMAIN doc /\ doc[key].type = "number"
HasString(doc, key) == key \in DOMAIN doc /\ doc[key].type = "string"
HasBool(doc, key) == key \in DOMAIN doc /\ doc[key].type = "bool"
TokenAttributes == {"single_word", "lstrip", "rstrip", "normalized"}
MapEntries ==
    IF tkFiles.special_tokens_map.valid /\ tkFiles.special_tokens_map.root = "object"
    THEN {tkFiles.special_tokens_map.entries[i] :
              i \in 1..Len(tkFiles.special_tokens_map.entries)}
    ELSE {}
\* A structured entry that lacks one of the four attributes, or has it of
\* another type than a boolean.
Malformed(entry) ==
    /\ "type" \notin DOMAIN entry
    /\ \E a \in TokenAttributes : ~HasBool(entry, a)
WellFormed(entry) ==
    \/ "type" \in DOMAIN entry
    \/ HasString(entry, "content") /\ \A a \in TokenAttributes : HasBool(entry, a)

\* The model-declared length cut to a whole number, without any rounding.
DeclaredLength == model_max_length_exact(TokConfig["model_max_length"])

\* C6: the truncation length configured on the tokenizer is
\* min(requested_max_length, model_max_length truncated to an integer), for
\* every requested and every declared length.
C6_EffectiveIsMin ==
    (Loaded /\ tkOut.tag = "Ok") =>
        tkOut.max_length = (IF DeclaredLength.max THEN tkRequested
                            ELSE Min(tkRequested, DeclaredLength.n))

\* C8: construction fails, and yields no tokenizer, on a structured
\* special-token entry that lacks lstrip, single_word, rstrip or normalized,
\* on a missing pad_token and on a missing or non-numeric model_max_length;
\* a missing pad_token_id does not make it fail and gives pad id 0.
C8_StrictExceptPadId ==
    Loaded =>
        /\ (\E e \in MapEntries : Malformed(e)) => tkOut.tag # "Ok"
        /\ ~HasString(TokConfig, "pad_token") => tkOut.tag # "Ok"
        /\ ~HasNumber(TokConfig, "model_max_length") => tkOut.tag # "Ok"
        /\ tkOut.tag # "Ok" => (tkOut.special = <<>> /\ tkOut.pad_token = "")
        /\ ( /\ FilesParse
             /\ tkFiles.truncation_ok
             /\ HasString(TokConfig, "pad_token")
             /\ HasNumber(TokConfig, "model_max_length")
             /\ \A e \in MapEntries : WellFormed(e)
             /\ "pad_token_id" \notin DOMAIN tkFiles.config.doc )
           => (tkOut.tag = "Ok" /\ tkOut.pad_id = 0)

\* C8 witness: every file parses and every required field is there, the
\* config has no pad_token_id, and the one structured entry lacks lstrip:
\* construction has failed.
C8_Witness ==
    /\ Loaded
    /\ FilesParse
    /\ tkFiles.truncation_ok
    /\ HasString(TokConfig, "pad_token")
    /\ HasNumber(TokConfig, "model_max_length")
    /\ "pad_token_id" \notin DOMAIN tkFiles.config.doc
    /\ \E e \in MapEntries : "type" \notin DOMAIN e /\ DOMAIN e = DOMAIN FullToken \ {"lstrip"}
    /\ tkOut.tag = "Panic"

====
